---- MODULE Spec2Model ----
(***************************************************************************)
(* A model of src/core/Suite.js: a tree of Suite objects, their four hook  *)
(* lists, their result record, their pending flag and their lazily created *)
(* shared user context.                                                    *)
(*                                                                         *)
(* Objects are kept in two stores.  suites is the arena of Suite objects,  *)
(* indexed by identity (1 is the top suite); a parentSuite of 0 is null.   *)
(* heap is the arena of UserContext objects; a sharedContext of 0 is       *)
(* undefined, any other value is a reference into heap, so that aliasing   *)
(* of contexts between suites is something a check can observe.            *)
(***************************************************************************)
EXTENDS Integers, Sequences, FiniteSets, TLC

\* ------------------------------------------------------------------ bounds
MaxSuites == 3
MaxHooks == 3
MaxResults == 2
MaxContexts == 3
MaxDeprecations == 1
HookSuites == 2
MaxLifecycle == 2
MaxChildren == 2
MaxSize == 2

\* ------------------------------------------------------------------ values
NoSuite == 0
NoContext == 0
NullFn == "null"
Undefined == "undefined"
ExpectationFailed == "ExpectationFailed"
NoError == "none"
\* children are referred to by number: a suite of the arena by its index, a
\* spec (a leaf, opaque here) by a negative number
SpecRefs == {-1}
PropKeys == {"owner"}
PropValues == {"qa"}

Descriptions == {"Calculator", "add"}
TopDescription == "Jasmine__TopLevel__Suites"
Fns == {"fn"}
\* values a caller may pass as the first argument of addExpectationResult
PassedArgs == {"true", "false", Undefined}
\* what the engine may hand to onException
Thrown == {ExpectationFailed, "Error"}
Keys == {"x"}
Values == {1, 2}
Absent == 0
Durations == {3, 5}

\* the data argument of addExpectationResult
ExpectationData ==
  { [matcherName |-> m, passed |-> "false", expected |-> "e", actual |-> "a",
     error |-> NoError, message |-> "m"] : m \in {"toBe", "toEqual"} }

\* the argument of addDeprecationWarning: raw text (isString), or a
\* structured record (object)
Deprecations ==
  { [isString |-> TRUE, text |-> "old api",
     object |-> [matcherName |-> Undefined, passed |-> Undefined,
                 expected |-> Undefined, actual |-> Undefined,
                 error |-> Undefined, message |-> Undefined]],
    [isString |-> FALSE, text |-> Undefined,
     object |-> [matcherName |-> Undefined, passed |-> Undefined,
                 expected |-> Undefined, actual |-> Undefined,
                 error |-> Undefined, message |-> "gone in 4.0"]] }

VARIABLES suites, heap, deprecated, declared, raised, returned

vars == <<suites, heap, deprecated, declared, raised, returned>>

SuiteIds == 1..Len(suites)

\* ------------------------------------------------------- pure helpers
Truthy(v) == v = "true"

\* faulty variant: a strict comparison with false instead of a falsy test
isFailureStrict(passed) == passed = "false"

isFailure(passed) == ~Truthy(passed)

\* the injected expectationResultFactory: a normalized record built from data
expectationResultFactory(data) ==
  [matcherName |-> data.matcherName, message |-> data.message,
   passed |-> data.passed, expected |-> data.expected, actual |-> data.actual,
   error |-> data.error, globalErrorType |-> Undefined]

RECURSIVE join(_)
join(names) ==
  IF names = <<>> THEN ""
  ELSE IF Len(names) = 1 THEN names[1]
  ELSE names[1] \o " " \o join(Tail(names))

\* faulty variant: the loop also takes the description of the top suite
RECURSIVE fullNameLoopIncludesRoot(_, _, _)
fullNameLoopIncludesRoot(ss, p, fullName) ==
  IF p = NoSuite THEN fullName
  ELSE fullNameLoopIncludesRoot(ss, ss[p].parentSuite,
                                <<ss[p].description>> \o fullName)

\* the loop of getFullName, from node p upwards, with accumulator fullName
RECURSIVE fullNameLoop(_, _, _)
fullNameLoop(ss, p, fullName) ==
  IF p = NoSuite THEN fullName
  ELSE fullNameLoop(ss, ss[p].parentSuite,
                    IF ss[p].parentSuite # NoSuite
                    THEN <<ss[p].description>> \o fullName
                    ELSE fullName)

getFullNameIn(ss, s) == join(fullNameLoop(ss, s, <<>>))

getFullName(s) == getFullNameIn(suites, s)

\* faulty variant: the failure list is looked at before the pending flag
statusFailedFirst(s) ==
  IF Len(suites[s].result.failedExpectations) > 0 THEN "failed"
  ELSE IF suites[s].markedPending THEN "pending"
  ELSE "passed"

\* faulty variant: a suite also fails when its parent has recorded a failure
statusInheritsFailure(s) ==
  IF suites[s].markedPending THEN "pending"
  ELSE IF Len(suites[s].result.failedExpectations) > 0 THEN "failed"
  ELSE IF suites[s].parentSuite # NoSuite
          /\ Len(suites[suites[s].parentSuite].result.failedExpectations) > 0
       THEN "failed"
  ELSE "passed"

status(s) ==
  IF suites[s].markedPending THEN "pending"
  ELSE IF Len(suites[s].result.failedExpectations) > 0 THEN "failed"
  ELSE "passed"

\* faulty variant: one empty list is enough
canBeReenteredEither(s) ==
  Len(suites[s].beforeAllFns) = 0 \/ Len(suites[s].afterAllFns) = 0

canBeReentered(s) ==
  Len(suites[s].beforeAllFns) = 0 /\ Len(suites[s].afterAllFns) = 0

\* faulty variant: the list is emptied instead of its entries being cleared
removeFnsTruncates(queueableFns) == <<>>

removeFns(queueableFns) ==
  [i \in 1..Len(queueableFns) |-> [queueableFns[i] EXCEPT !.fn = NullFn]]

\* Array.prototype.unshift and push
unshift(list, x) == <<x>> \o list
push(list, x) == Append(list, x)

\* the Suite constructor: the object built from attrs, given the arena ss
\* faulty variant: the result's fullName is the suite's own description
NewSuiteObjectNamedByDescription(ss, attrs) ==
  [id |-> attrs.id,
   parentSuite |-> attrs.parentSuite,
   description |-> attrs.description,
   throwOnExpectationFailure |-> attrs.throwOnExpectationFailure,
   beforeFns |-> <<>>,
   afterFns |-> <<>>,
   beforeAllFns |-> <<>>,
   afterAllFns |-> <<>>,
   timer |-> [started |-> FALSE],
   children |-> <<>>,
   markedPending |-> FALSE,
   sharedContext |-> NoContext,
   result |-> [id |-> attrs.id,
               description |-> attrs.description,
               fullName |-> attrs.description,
               failedExpectations |-> <<>>,
               deprecationWarnings |-> <<>>,
               duration |-> <<>>,
               properties |-> <<>>,
               status |-> Undefined]]

\* (the new object is stored at Len(ss) + 1; markedPending and sharedContext
\* are not assigned by the constructor and start out undefined, i.e. falsy)
NewSuiteObject(ss, attrs) ==
  LET this == [id |-> attrs.id,
               parentSuite |-> attrs.parentSuite,
               description |-> attrs.description,
               throwOnExpectationFailure |-> attrs.throwOnExpectationFailure,
               beforeFns |-> <<>>,
               afterFns |-> <<>>,
               beforeAllFns |-> <<>>,
               afterAllFns |-> <<>>,
               timer |-> [started |-> FALSE],
               children |-> <<>>,
               markedPending |-> FALSE,
               sharedContext |-> NoContext,
               result |-> [id |-> attrs.id,
                           description |-> attrs.description,
                           fullName |-> Undefined,
                           failedExpectations |-> <<>>,
                           deprecationWarnings |-> <<>>,
                           duration |-> <<>>,
                           properties |-> <<>>,
                           status |-> Undefined]]
  IN  [this EXCEPT !.result.fullName =
                      getFullNameIn(Append(ss, this), Len(ss) + 1)]

\* the outcome of a call: it returns v, or it raises err from suite s
NoRaise == [error |-> NoError, suite |-> NoSuite]
Returned(v) == raised' = NoRaise /\ returned' = v
Raised(s, err) == raised' = [error |-> err, suite |-> s] /\ returned' = NoContext

\* total number of result records held by all suites
RECURSIVE SumOver(_, _)
SumOver(f, n) == IF n = 0 THEN 0 ELSE f[n] + SumOver(f, n - 1)

NumResults ==
  SumOver([s \in SuiteIds |->
             Len(suites[s].result.failedExpectations)
             + Len(suites[s].result.deprecationWarnings)], Len(suites))

NumChildren == SumOver([s \in SuiteIds |-> Len(suites[s].children)], Len(suites))

\* ------------------------------------------------------------------ Init
\* the top suite, as the environment constructs it
TopSuite(t) ==
  NewSuiteObject(<<>>, [id |-> 1, parentSuite |-> NoSuite,
                        description |-> TopDescription,
                        throwOnExpectationFailure |-> t])

InitStores(ss) ==
  /\ suites = ss
  /\ heap = <<>>
  /\ deprecated = <<>>
  /\ declared = <<>>
  /\ raised = NoRaise
  /\ returned = NoContext

Init == \E t \in BOOLEAN : InitStores(<<TopSuite(t)>>)

\* ------------------------------------------------------------------ tree
NewSuite(p, d, t) ==
  /\ suites' = Append(suites,
                 NewSuiteObject(suites, [id |-> Len(suites) + 1, parentSuite |-> p,
                                         description |-> d,
                                         throwOnExpectationFailure |-> t]))
  /\ Returned(NoContext)
  /\ UNCHANGED <<heap, deprecated, declared>>

AddChild(s, child) ==
  /\ suites' = [suites EXCEPT ![s].children = push(@, child)]
  /\ Returned(NoContext)
  /\ UNCHANGED <<heap, deprecated, declared>>

\* ------------------------------------------------------------------ hooks
\* The engine hands each registration a fresh queueable-fn object {fn: ...}.
\* declared is the log of the registrations made so far, in call order; the
\* position of a registration in the log is the identity of its hook object.
NewHook(f) == [id |-> Len(declared) + 1, fn |-> f]

Declare(s, kind) == declared' = Append(declared, [suite |-> s, kind |-> kind])

BeforeEach(s, fn) ==
  /\ Declare(s, "beforeEach")
  /\ suites' = [suites EXCEPT ![s].beforeFns = unshift(@, fn)]
  /\ Returned(NoContext)
  /\ UNCHANGED <<heap, deprecated>>

\* faulty variant: beforeAll prepends like the other three
BeforeAllUnshifts(s, fn) ==
  /\ Declare(s, "beforeAll")
  /\ suites' = [suites EXCEPT ![s].beforeAllFns = unshift(@, fn)]
  /\ Returned(NoContext)
  /\ UNCHANGED <<heap, deprecated>>

BeforeAll(s, fn) ==
  /\ Declare(s, "beforeAll")
  /\ suites' = [suites EXCEPT ![s].beforeAllFns = push(@, fn)]
  /\ Returned(NoContext)
  /\ UNCHANGED <<heap, deprecated>>

AfterEach(s, fn) ==
  /\ Declare(s, "afterEach")
  /\ suites' = [suites EXCEPT ![s].afterFns = unshift(@, fn)]
  /\ Returned(NoContext)
  /\ UNCHANGED <<heap, deprecated>>

AfterAll(s, fn) ==
  /\ Declare(s, "afterAll")
  /\ suites' = [suites EXCEPT ![s].afterAllFns = unshift(@, fn)]
  /\ Returned(NoContext)
  /\ UNCHANGED <<heap, deprecated>>

CleanupBeforeAfter(s) ==
  /\ suites' = [suites EXCEPT ![s].beforeAllFns = removeFns(@),
                              ![s].afterAllFns = removeFns(@),
                              ![s].beforeFns = removeFns(@),
                              ![s].afterFns = removeFns(@)]
  /\ Returned(NoContext)
  /\ UNCHANGED <<heap, deprecated, declared>>

\* ------------------------------------------------------------------ timer
StartTimer(s) ==
  /\ suites' = [suites EXCEPT ![s].timer.started = TRUE]
  /\ Returned(NoContext)
  /\ UNCHANGED <<heap, deprecated, declared>>

\* faulty variant: endTimer keeps a duration that is already stored
EndTimerKeepsFirst(s, elapsed) ==
  /\ suites' = [suites EXCEPT ![s].result.duration =
                                  IF @ = <<>> THEN <<elapsed>> ELSE @]
  /\ Returned(NoContext)
  /\ UNCHANGED <<heap, deprecated, declared>>

\* elapsed is what the injected timer's elapsed() answers
EndTimer(s, elapsed) ==
  /\ suites' = [suites EXCEPT ![s].result.duration = <<elapsed>>]
  /\ Returned(NoContext)
  /\ UNCHANGED <<heap, deprecated, declared>>

\* ---------------------------------------------------------- status, result
\* faulty variant: pend toggles the flag instead of setting it
PendToggles(s) ==
  /\ suites' = [suites EXCEPT ![s].markedPending = ~@]
  /\ Returned(NoContext)
  /\ UNCHANGED <<heap, deprecated, declared>>

Pend(s) ==
  /\ suites' = [suites EXCEPT ![s].markedPending = TRUE]
  /\ Returned(NoContext)
  /\ UNCHANGED <<heap, deprecated, declared>>

GetResult(s) ==
  /\ suites' = [suites EXCEPT ![s].result.status = status(s)]
  /\ Returned(NoContext)
  /\ UNCHANGED <<heap, deprecated, declared>>

SetSuiteProperty(s, key, value) ==
  /\ LET properties == IF suites[s].result.properties = <<>>
                       THEN [k \in PropKeys |-> Undefined]
                       ELSE suites[s].result.properties[1]
     IN  suites' = [suites EXCEPT ![s].result.properties =
                                     << [properties EXCEPT ![key] = value] >>]
  /\ Returned(NoContext)
  /\ UNCHANGED <<heap, deprecated, declared>>

\* faulty variant: the failure is put in front of the earlier ones
AddExpectationResultPrepends(s, passed, data) ==
  /\ IF isFailure(passed)
     THEN /\ suites' = [suites EXCEPT ![s].result.failedExpectations =
                                         unshift(@, expectationResultFactory(data))]
          /\ IF suites[s].throwOnExpectationFailure
             THEN Raised(s, ExpectationFailed)
             ELSE Returned(NoContext)
     ELSE /\ suites' = suites
          /\ Returned(NoContext)
  /\ UNCHANGED <<heap, deprecated, declared>>

\* faulty variant: a failure is thrown whatever throwOnExpectationFailure is
AddExpectationResultAlwaysThrows(s, passed, data) ==
  /\ IF isFailure(passed)
     THEN /\ suites' = [suites EXCEPT ![s].result.failedExpectations =
                                         push(@, expectationResultFactory(data))]
          /\ Raised(s, ExpectationFailed)
     ELSE /\ suites' = suites
          /\ Returned(NoContext)
  /\ UNCHANGED <<heap, deprecated, declared>>

AddExpectationResult(s, passed, data) ==
  /\ IF isFailure(passed)
     THEN /\ suites' = [suites EXCEPT ![s].result.failedExpectations =
                                         push(@, expectationResultFactory(data))]
          /\ IF suites[s].throwOnExpectationFailure
             THEN Raised(s, ExpectationFailed)
             ELSE Returned(NoContext)
     ELSE /\ suites' = suites
          /\ Returned(NoContext)
  /\ UNCHANGED <<heap, deprecated, declared>>

\* the object {message: text} as the factory reads it: the other fields are
\* undefined
MessageObject(text) ==
  [matcherName |-> Undefined, passed |-> Undefined, expected |-> Undefined,
   actual |-> Undefined, error |-> Undefined, message |-> text]

\* faulty variant: a text is handed to the factory as it is, and the factory
\* finds no message on it
AddDeprecationWarningUnwrapped(s, deprecation) ==
  /\ LET wrapped == IF deprecation.isString
                    THEN MessageObject(Undefined)
                    ELSE deprecation.object
     IN  suites' = [suites EXCEPT ![s].result.deprecationWarnings =
                                     push(@, expectationResultFactory(wrapped))]
  /\ Returned(NoContext)
  /\ UNCHANGED <<heap, deprecated, declared>>

AddDeprecationWarning(s, deprecation) ==
  /\ LET wrapped == IF deprecation.isString
                    THEN MessageObject(deprecation.text)
                    ELSE deprecation.object
     IN  suites' = [suites EXCEPT ![s].result.deprecationWarnings =
                                     push(@, expectationResultFactory(wrapped))]
  /\ Returned(NoContext)
  /\ UNCHANGED <<heap, deprecated, declared>>

\* faulty variant: the ExpectationFailed signal is recorded like any other error
OnExceptionRecordsSignal(s, err) ==
  /\ LET data == [matcherName |-> "", passed |-> "false", expected |-> "",
                  actual |-> "", error |-> err, message |-> Undefined]
         made == expectationResultFactory(data)
         failedExpectation ==
           IF suites[s].parentSuite = NoSuite
           THEN [made EXCEPT !.globalErrorType = "afterAll"]
           ELSE made
     IN  suites' = [suites EXCEPT ![s].result.failedExpectations =
                                     push(@, failedExpectation)]
  /\ Returned(NoContext)
  /\ UNCHANGED <<heap, deprecated, declared>>

\* faulty variant: the record is tagged as an afterAll error in every suite
OnExceptionTagsEverySuite(s, err) ==
  /\ IF err = ExpectationFailed
     THEN suites' = suites
     ELSE LET data == [matcherName |-> "", passed |-> "false", expected |-> "",
                       actual |-> "", error |-> err, message |-> Undefined]
              made == expectationResultFactory(data)
              failedExpectation == [made EXCEPT !.globalErrorType = "afterAll"]
          IN  suites' = [suites EXCEPT ![s].result.failedExpectations =
                                          push(@, failedExpectation)]
  /\ Returned(NoContext)
  /\ UNCHANGED <<heap, deprecated, declared>>

OnException(s, err) ==
  /\ IF err = ExpectationFailed
     THEN suites' = suites
     ELSE LET data == [matcherName |-> "", passed |-> "false", expected |-> "",
                       actual |-> "", error |-> err, message |-> Undefined]
              made == expectationResultFactory(data)
              failedExpectation ==
                IF suites[s].parentSuite = NoSuite
                THEN [made EXCEPT !.globalErrorType = "afterAll"]
                ELSE made
          IN  suites' = [suites EXCEPT ![s].result.failedExpectations =
                                          push(@, failedExpectation)]
  /\ Returned(NoContext)
  /\ UNCHANGED <<heap, deprecated, declared>>

\* the two texts of onMultipleDone
SuiteScopedMessage(fullName) ==
  "An asynchronous function called its 'done' callback more than "
  \o "once. This is a bug in the spec, beforeAll, beforeEach, afterAll, "
  \o "or afterEach function in question. This will be treated as an error "
  \o "in a future version.\n"
  \o "(in suite: "
  \o fullName
  \o ")"

TopLevelMessage ==
  "A top-level beforeAll or afterAll function called its "
  \o "'done' callback more than once. This is a bug in the beforeAll "
  \o "or afterAll function in question. This will be treated as an "
  \o "error in a future version."

\* faulty variant: every suite reports with the top-level text
OnMultipleDoneTopLevelOnly(s) ==
  /\ deprecated' = Append(deprecated,
                          [msg |-> TopLevelMessage,
                           options |-> [ignoreRunnable |-> TRUE]])
  /\ Returned(NoContext)
  /\ UNCHANGED <<suites, heap, declared>>

OnMultipleDone(s) ==
  /\ LET msg == IF suites[s].parentSuite # NoSuite
                THEN SuiteScopedMessage(getFullName(s))
                ELSE TopLevelMessage
     IN  deprecated' = Append(deprecated,
                              [msg |-> msg, options |-> [ignoreRunnable |-> TRUE]])
  /\ Returned(NoContext)
  /\ UNCHANGED <<suites, heap, declared>>

\* --------------------------------------------------------- shared context
\* new j$.UserContext(): a fresh object without properties
NewUserContext(hp) ==
  [heap |-> Append(hp, [k \in Keys |-> Absent]), ret |-> Len(hp) + 1]

\* j$.UserContext.fromExisting(oldContext): a fresh object holding a copy of
\* each own property of oldContext
fromExisting(hp, oldContext) ==
  [heap |-> Append(hp, [k \in Keys |-> hp[oldContext][k]]), ret |-> Len(hp) + 1]

\* sharedUserContext and clonedSharedUserContext call each other up the
\* ancestor chain; each maps the two stores to the stores after the call and
\* the reference it returns
RECURSIVE sharedUserContext(_, _, _)
RECURSIVE clonedSharedUserContext(_, _, _)

\* faulty variant: the context is made anew on every call
sharedUserContextRecreates(ss, hp, s) ==
  LET made == IF ss[s].parentSuite # NoSuite
              THEN clonedSharedUserContext(ss, hp, ss[s].parentSuite)
              ELSE [suites |-> ss] @@ NewUserContext(hp)
  IN  [suites |-> [made.suites EXCEPT ![s].sharedContext = made.ret],
       heap |-> made.heap,
       ret |-> made.ret]

\* faulty variant: every suite starts from a context of its own and does not
\* ask its parent
sharedUserContextStartsFresh(ss, hp, s) ==
  IF ss[s].sharedContext = NoContext
  THEN LET made == [suites |-> ss] @@ NewUserContext(hp)
       IN  [suites |-> [made.suites EXCEPT ![s].sharedContext = made.ret],
            heap |-> made.heap,
            ret |-> made.ret]
  ELSE [suites |-> ss, heap |-> hp, ret |-> ss[s].sharedContext]

\* faulty variant: a suite takes its parent's context itself, not a clone of it
sharedUserContextShares(ss, hp, s) ==
  IF ss[s].sharedContext = NoContext
  THEN LET made == IF ss[s].parentSuite # NoSuite
                   THEN sharedUserContext(ss, hp, ss[s].parentSuite)
                   ELSE [suites |-> ss] @@ NewUserContext(hp)
       IN  [suites |-> [made.suites EXCEPT ![s].sharedContext = made.ret],
            heap |-> made.heap,
            ret |-> made.ret]
  ELSE [suites |-> ss, heap |-> hp, ret |-> ss[s].sharedContext]

sharedUserContext(ss, hp, s) ==
  IF ss[s].sharedContext = NoContext
  THEN LET made == IF ss[s].parentSuite # NoSuite
                   THEN clonedSharedUserContext(ss, hp, ss[s].parentSuite)
                   ELSE [suites |-> ss] @@ NewUserContext(hp)
       IN  [suites |-> [made.suites EXCEPT ![s].sharedContext = made.ret],
            heap |-> made.heap,
            ret |-> made.ret]
  ELSE [suites |-> ss, heap |-> hp, ret |-> ss[s].sharedContext]

\* faulty variant: the context is handed out itself, without fromExisting
clonedSharedUserContextAliases(ss, hp, s) == sharedUserContext(ss, hp, s)

clonedSharedUserContext(ss, hp, s) ==
  LET own == sharedUserContext(ss, hp, s)
  IN  [suites |-> own.suites] @@ fromExisting(own.heap, own.ret)

SharedUserContext(s) ==
  LET call == sharedUserContext(suites, heap, s)
  IN  /\ suites' = call.suites
      /\ heap' = call.heap
      /\ Returned(call.ret)
      /\ UNCHANGED <<deprecated, declared>>

ClonedSharedUserContext(s) ==
  LET call == clonedSharedUserContext(suites, heap, s)
  IN  /\ suites' = call.suites
      /\ heap' = call.heap
      /\ Returned(call.ret)
      /\ UNCHANGED <<deprecated, declared>>

\* user code running with a suite's context as `this` assigns this[key] = value
SetContextProperty(s, key, value) ==
  /\ suites[s].sharedContext # NoContext
  /\ heap' = [heap EXCEPT ![suites[s].sharedContext][key] = value]
  /\ Returned(NoContext)
  /\ UNCHANGED <<suites, deprecated, declared>>

\* ------------------------------------------------------- specifications
\* Each disjunct of a next-state relation is one call by the engine, with its
\* arguments drawn from the sets above.  The Max... definitions cap the stores
\* that a run could otherwise grow without end.  The environment passes its
\* own throwOnExpectationFailure setting to every suite it constructs.
Construct(N, D) ==
  \E p \in SuiteIds, d \in D :
    /\ Len(suites) < N
    /\ NewSuite(p, d, suites[1].throwOnExpectationFailure)

\* Every operation, on every suite.  The relations further down take the same
\* steps on fewer suites, with fewer operations or under other caps; they keep
\* the state space of a group of operations small enough to be explored in
\* full.
Next ==
  \/ Construct(MaxSuites, Descriptions)
  \/ \E s \in SuiteIds, c \in SuiteIds \cup SpecRefs :
       /\ NumChildren < MaxChildren
       /\ c \in SuiteIds => suites[c].parentSuite = s
       /\ AddChild(s, c)
  \/ \E s \in SuiteIds, f \in Fns : Len(declared) < MaxHooks /\ BeforeEach(s, NewHook(f))
  \/ \E s \in SuiteIds, f \in Fns : Len(declared) < MaxHooks /\ BeforeAll(s, NewHook(f))
  \/ \E s \in SuiteIds, f \in Fns : Len(declared) < MaxHooks /\ AfterEach(s, NewHook(f))
  \/ \E s \in SuiteIds, f \in Fns : Len(declared) < MaxHooks /\ AfterAll(s, NewHook(f))
  \/ \E s \in SuiteIds : CleanupBeforeAfter(s)
  \/ \E s \in SuiteIds : StartTimer(s)
  \/ \E s \in SuiteIds, ms \in Durations : EndTimer(s, ms)
  \/ \E s \in SuiteIds : Pend(s)
  \/ \E s \in SuiteIds : GetResult(s)
  \/ \E s \in SuiteIds, p \in PassedArgs, d \in ExpectationData :
       NumResults < MaxResults /\ AddExpectationResult(s, p, d)
  \/ \E s \in SuiteIds, d \in Deprecations :
       NumResults < MaxResults /\ AddDeprecationWarning(s, d)
  \/ \E s \in SuiteIds, e \in Thrown : NumResults < MaxResults /\ OnException(s, e)
  \/ \E s \in SuiteIds, k \in PropKeys, v \in PropValues : SetSuiteProperty(s, k, v)
  \/ \E s \in SuiteIds : Len(deprecated) < MaxDeprecations /\ OnMultipleDone(s)
  \/ \E s \in SuiteIds : SharedUserContext(s) /\ Len(heap') <= MaxContexts
  \/ \E s \in SuiteIds : ClonedSharedUserContext(s) /\ Len(heap') <= MaxContexts
  \/ \E s \in SuiteIds, k \in Keys, v \in Values : SetContextProperty(s, k, v)

Spec == Init /\ [][Next]_vars

\* hook registration and cleanup on a small tree
NextHooks ==
  \/ Construct(HookSuites, {"Calculator"})
  \/ \E s \in SuiteIds, f \in Fns : Len(declared) < MaxHooks /\ BeforeEach(s, NewHook(f))
  \/ \E s \in SuiteIds, f \in Fns : Len(declared) < MaxHooks /\ BeforeAll(s, NewHook(f))
  \/ \E s \in SuiteIds, f \in Fns : Len(declared) < MaxHooks /\ AfterEach(s, NewHook(f))
  \/ \E s \in SuiteIds, f \in Fns : Len(declared) < MaxHooks /\ AfterAll(s, NewHook(f))
  \/ \E s \in SuiteIds : CleanupBeforeAfter(s)

SpecHooks == Init /\ [][NextHooks]_vars

\* the shared user contexts of a tree
NextContext ==
  \/ Construct(MaxSuites, {"Calculator"})
  \/ \E s \in SuiteIds : SharedUserContext(s) /\ Len(heap') <= MaxContexts
  \/ \E s \in SuiteIds : ClonedSharedUserContext(s) /\ Len(heap') <= MaxContexts
  \/ \E s \in SuiteIds, k \in Keys, v \in Values : SetContextProperty(s, k, v)

SpecContext == Init /\ [][NextContext]_vars

\* The life of one suite: the top suite, or a suite declared in it.  The
\* subject is the suite constructed last; MaxLifecycle caps the hooks and the
\* result records it collects.
InitLifecycle ==
  \E t \in BOOLEAN :
    \/ InitStores(<<TopSuite(t)>>)
    \/ InitStores(Append(<<TopSuite(t)>>,
                         NewSuiteObject(<<TopSuite(t)>>,
                                        [id |-> 2, parentSuite |-> 1,
                                         description |-> "Calculator",
                                         throwOnExpectationFailure |-> t])))

Subject == {Len(suites)}

Collected == Len(declared) + NumResults + NumChildren

NextLifecycle ==
  \/ \E s \in Subject, f \in Fns : Collected < MaxLifecycle /\ BeforeEach(s, NewHook(f))
  \/ \E s \in Subject, f \in Fns : Collected < MaxLifecycle /\ BeforeAll(s, NewHook(f))
  \/ \E s \in Subject, f \in Fns : Collected < MaxLifecycle /\ AfterEach(s, NewHook(f))
  \/ \E s \in Subject, f \in Fns : Collected < MaxLifecycle /\ AfterAll(s, NewHook(f))
  \/ \E s \in Subject : CleanupBeforeAfter(s)
  \/ \E s \in Subject : EndTimer(s, 5)
  \/ \E s \in Subject : Pend(s)
  \/ \E s \in Subject : GetResult(s)
  \/ \E s \in Subject, p \in PassedArgs, d \in ExpectationData :
       Collected < MaxLifecycle /\ AddExpectationResult(s, p, d)
  \/ \E s \in Subject, d \in Deprecations :
       Collected < MaxLifecycle /\ AddDeprecationWarning(s, d)
  \/ \E s \in Subject, e \in Thrown : Collected < MaxLifecycle /\ OnException(s, e)
  \/ \E s \in Subject : SharedUserContext(s)
  \/ \E s \in Subject, c \in SpecRefs : Collected < MaxLifecycle /\ AddChild(s, c)

SpecLifecycle == InitLifecycle /\ [][NextLifecycle]_vars

\* Every operation on every suite of a tree that grows while it is used.
\* Written(s) counts what the operations have written into suite s besides its
\* lists; Size counts everything the operations have built so far, and MaxSize
\* caps it, so that short histories of all operations are explored in full.
Written(s) ==
    (IF suites[s].markedPending THEN 1 ELSE 0)
  + (IF suites[s].timer.started THEN 1 ELSE 0)
  + (IF suites[s].result.duration # <<>> THEN 1 ELSE 0)
  + (IF suites[s].result.properties # <<>> THEN 1 ELSE 0)
  + (IF suites[s].result.status # Undefined THEN 1 ELSE 0)

Size ==
    (Len(suites) - 1) + Len(declared) + NumResults + NumChildren
  + Len(heap) + Len(deprecated)
  + SumOver([s \in SuiteIds |-> Written(s)], Len(suites))

NextTree ==
  \/ Size < MaxSize /\ Construct(MaxSuites, Descriptions)
  \/ \E s \in SuiteIds, c \in SuiteIds \cup SpecRefs :
       /\ Size < MaxSize
       /\ c \in SuiteIds => suites[c].parentSuite = s
       /\ AddChild(s, c)
  \/ \E s \in SuiteIds, f \in Fns : Size < MaxSize /\ BeforeEach(s, NewHook(f))
  \/ \E s \in SuiteIds, f \in Fns : Size < MaxSize /\ BeforeAll(s, NewHook(f))
  \/ \E s \in SuiteIds, f \in Fns : Size < MaxSize /\ AfterEach(s, NewHook(f))
  \/ \E s \in SuiteIds, f \in Fns : Size < MaxSize /\ AfterAll(s, NewHook(f))
  \/ \E s \in SuiteIds : CleanupBeforeAfter(s)
  \/ \E s \in SuiteIds : Size < MaxSize /\ StartTimer(s)
  \/ \E s \in SuiteIds, ms \in Durations : Size < MaxSize /\ EndTimer(s, ms)
  \/ \E s \in SuiteIds : Size < MaxSize /\ Pend(s)
  \/ \E s \in SuiteIds : Size < MaxSize /\ GetResult(s)
  \/ \E s \in SuiteIds, p \in PassedArgs, d \in ExpectationData :
       Size < MaxSize /\ AddExpectationResult(s, p, d)
  \/ \E s \in SuiteIds, d \in Deprecations :
       Size < MaxSize /\ AddDeprecationWarning(s, d)
  \/ \E s \in SuiteIds, e \in Thrown : Size < MaxSize /\ OnException(s, e)
  \/ \E s \in SuiteIds, k \in PropKeys, v \in PropValues :
       Size < MaxSize /\ SetSuiteProperty(s, k, v)
  \/ \E s \in SuiteIds : Size < MaxSize /\ OnMultipleDone(s)
  \/ \E s \in SuiteIds : Size < MaxSize /\ SharedUserContext(s)
  \/ \E s \in SuiteIds : Size < MaxSize /\ ClonedSharedUserContext(s)
  \/ \E s \in SuiteIds, k \in Keys, v \in Values :
       Size < MaxSize /\ SetContextProperty(s, k, v)

SpecTree == Init /\ [][NextTree]_vars

\* names and results in a tree of described suites
NextNaming ==
  \/ Construct(MaxSuites, Descriptions)
  \/ \E s \in SuiteIds : Pend(s)
  \/ \E s \in SuiteIds : GetResult(s)

SpecNaming == Init /\ [][NextNaming]_vars

\* hooks that call done more than once, in a tree of described suites
NextMultipleDone ==
  \/ Construct(MaxSuites, Descriptions)
  \/ \E s \in SuiteIds : Pend(s)
  \/ \E s \in SuiteIds : Len(deprecated) < MaxDeprecations /\ OnMultipleDone(s)

SpecMultipleDone == Init /\ [][NextMultipleDone]_vars

\* ------------------------------------------------------------ properties
FailedExpectations(s) == suites[s].result.failedExpectations
FalsyArgs == {p \in PassedArgs : ~Truthy(p)}

\* C1: status() answers 'pending' whenever markedPending is set, otherwise
\* 'failed' whenever failedExpectations is non-empty, otherwise 'passed'.
StatusPrecedence ==
  \A s \in SuiteIds :
    /\ suites[s].markedPending => status(s) = "pending"
    /\ (~suites[s].markedPending /\ FailedExpectations(s) # <<>>)
         => status(s) = "failed"
    /\ (~suites[s].markedPending /\ FailedExpectations(s) = <<>>)
         => status(s) = "passed"

\* a pending suite that has recorded a failure, read by getResult
StatusPrecedenceWitness ==
  \E s \in SuiteIds :
    /\ suites[s].markedPending
    /\ FailedExpectations(s) # <<>>
    /\ suites[s].result.status = "pending"

\* C2: a call of pend() makes status() 'pending', and from a state in which
\* the suite is marked pending every step of every operation leads to a state
\* in which it is still marked pending and status() is still 'pending'.
PendingIsPermanent ==
  [][\A s \in SuiteIds :
       /\ Pend(s) => status(s)' = "pending"
       /\ suites[s].markedPending
            => (suites'[s].markedPending /\ status(s)' = "pending")]_vars

\* a pending suite on which a failure, the cleanup of a registered hook, the
\* timer's end and getResult have all taken place
PendingIsPermanentWitness ==
  \E s \in SuiteIds :
    /\ suites[s].markedPending
    /\ suites[s].result.status = "pending"
    /\ FailedExpectations(s) # <<>>
    /\ suites[s].result.duration # <<>>
    /\ \E i \in 1..Len(suites[s].afterAllFns) : suites[s].afterAllFns[i].fn = NullFn

\* C3: a step of addExpectationResult(passed, data) leaves failedExpectations
\* as it was when passed is truthy, and otherwise appends the one record the
\* factory makes of data, whatever throwOnExpectationFailure is.
AddExpectationResultAppendsOne ==
  [][\A s \in SuiteIds, p \in PassedArgs, d \in ExpectationData :
       AddExpectationResult(s, p, d)
         => FailedExpectations(s)' =
              IF Truthy(p) THEN FailedExpectations(s)
              ELSE Append(FailedExpectations(s), expectationResultFactory(d))]_vars

\* two failures recorded one after the other on a suite that throws
AddExpectationResultWitness ==
  \E s \in SuiteIds :
    /\ suites[s].throwOnExpectationFailure
    /\ Len(FailedExpectations(s)) = 2
    /\ FailedExpectations(s)[1].matcherName = "toBe"
    /\ FailedExpectations(s)[2].matcherName = "toEqual"
    /\ raised = [error |-> ExpectationFailed, suite |-> s]

\* C4: on a suite with throwOnExpectationFailure, a failing
\* addExpectationResult appends its record and raises ExpectationFailed; when
\* that signal is then handed to the suite's onException, failedExpectations
\* stays as the throwing call left it.
ThrownFailureRecordedOnce ==
  [][\A s \in SuiteIds :
       /\ \A p \in FalsyArgs, d \in ExpectationData :
            (suites[s].throwOnExpectationFailure /\ AddExpectationResult(s, p, d))
              => /\ FailedExpectations(s)' =
                      Append(FailedExpectations(s), expectationResultFactory(d))
                 /\ raised' = [error |-> ExpectationFailed, suite |-> s]
       /\ (raised = [error |-> ExpectationFailed, suite |-> s]
           /\ OnException(s, ExpectationFailed))
              => /\ FailedExpectations(s)' = FailedExpectations(s)
                 /\ raised' = NoRaise]_vars

\* the signal is in flight and the suite holds the one record of the failure
ThrownFailureWitness ==
  \E s \in SuiteIds :
    /\ suites[s].throwOnExpectationFailure
    /\ raised = [error |-> ExpectationFailed, suite |-> s]
    /\ Len(FailedExpectations(s)) = 1
    /\ ENABLED OnException(s, ExpectationFailed)

\* the identities of the hooks of a list, in list order
HookIds(list) == [i \in 1..Len(list) |-> list[i].id]

\* the identities of the hooks that suite s was given by calls of kind, in
\* the order of the calls
DeclaredAs(s, kind) ==
  SelectSeq([i \in 1..Len(declared) |-> i],
            LAMBDA i : declared[i] = [suite |-> s, kind |-> kind])

Reverse(seq) == [i \in 1..Len(seq) |-> seq[Len(seq) + 1 - i]]

\* C5: beforeAllFns holds the hooks given to beforeAll in the order of the
\* calls; afterAllFns, beforeFns and afterFns hold the hooks given to afterAll,
\* beforeEach and afterEach in the reverse of the order of the calls.  Each
\* list holds the hooks of its own operation only.
HookOrder ==
  \A s \in SuiteIds :
    /\ HookIds(suites[s].beforeAllFns) = DeclaredAs(s, "beforeAll")
    /\ HookIds(suites[s].afterAllFns) = Reverse(DeclaredAs(s, "afterAll"))
    /\ HookIds(suites[s].beforeFns) = Reverse(DeclaredAs(s, "beforeEach"))
    /\ HookIds(suites[s].afterFns) = Reverse(DeclaredAs(s, "afterEach"))

\* a suite given a beforeAll, then an afterEach, then a second beforeAll
HookOrderWitness ==
  \E s \in SuiteIds :
    /\ declared = << [suite |-> s, kind |-> "beforeAll"],
                     [suite |-> s, kind |-> "afterEach"],
                     [suite |-> s, kind |-> "beforeAll"] >>
    /\ HookIds(suites[s].beforeAllFns) = <<1, 3>>
    /\ HookIds(suites[s].afterFns) = <<2>>

\* C6: canBeReentered() is true exactly when the suite was never given a
\* beforeAll or an afterAll hook, also after cleanupBeforeAfter().
ReentrantIffNoAllHooks ==
  \A s \in SuiteIds :
    canBeReentered(s)
      <=> (DeclaredAs(s, "beforeAll") = <<>> /\ DeclaredAs(s, "afterAll") = <<>>)

\* a suite whose only "all" hook is an afterAll that cleanup has cleared, next
\* to a beforeEach
ReentrantWitness ==
  \E s \in SuiteIds :
    /\ Len(suites[s].afterAllFns) = 1
    /\ suites[s].afterAllFns[1].fn = NullFn
    /\ Len(suites[s].beforeAllFns) = 0
    /\ Len(suites[s].beforeFns) = 1
    /\ ~canBeReentered(s)

\* the same hooks in the same slots, each without its function
Cleared(list) == [i \in 1..Len(list) |-> [id |-> list[i].id, fn |-> NullFn]]

\* C10: a step of cleanupBeforeAfter() leaves each of the four lists with the
\* same hooks in the same order, every one with fn null, and changes nothing
\* else: not the suite's children, result, markedPending or sharedContext, not
\* another suite, not a context.
CleanupClearsFnsOnly ==
  [][\A s \in SuiteIds :
       CleanupBeforeAfter(s)
         => /\ suites'[s].beforeAllFns = Cleared(suites[s].beforeAllFns)
            /\ suites'[s].afterAllFns = Cleared(suites[s].afterAllFns)
            /\ suites'[s].beforeFns = Cleared(suites[s].beforeFns)
            /\ suites'[s].afterFns = Cleared(suites[s].afterFns)
            /\ Len(suites'[s].beforeAllFns) = Len(suites[s].beforeAllFns)
            /\ Len(suites'[s].afterAllFns) = Len(suites[s].afterAllFns)
            /\ Len(suites'[s].beforeFns) = Len(suites[s].beforeFns)
            /\ Len(suites'[s].afterFns) = Len(suites[s].afterFns)
            /\ suites'[s].children = suites[s].children
            /\ suites'[s].result = suites[s].result
            /\ suites'[s].markedPending = suites[s].markedPending
            /\ suites'[s].sharedContext = suites[s].sharedContext
            /\ \A o \in SuiteIds \ {s} : suites'[o] = suites[o]
            /\ heap' = heap]_vars

\* cleanup has cleared the hook of a pending suite that holds a child, a
\* duration and a shared context
CleanupWitness ==
  \E s \in SuiteIds :
    /\ Len(suites[s].beforeFns) = 1
    /\ suites[s].beforeFns[1].fn = NullFn
    /\ suites[s].children # <<>>
    /\ suites[s].result.duration # <<>>
    /\ suites[s].markedPending
    /\ suites[s].sharedContext # NoContext

\* the contents of the shared context of suite s, once it has one
Context(s) == heap[suites[s].sharedContext]
HasContext(s) == suites[s].sharedContext # NoContext
ChildrenOf(p) == {s \in SuiteIds : suites[s].parentSuite = p}

\* C7: the first sharedUserContext() of a suite with a parent gives it a
\* context with the contents the parent's context has at that moment, and no
\* later assignment to the parent's context changes the contents of the
\* child's context.
ChildContextIsSnapshot ==
  [][\A p \in SuiteIds : \A s \in ChildrenOf(p) :
       /\ (~HasContext(s) /\ SharedUserContext(s))
            => /\ HasContext(s)'
               /\ HasContext(p)'
               /\ HasContext(p) => Context(p)' = Context(p)
               /\ Context(s)' = Context(p)'
       /\ \A k \in Keys, v \in Values :
            (HasContext(s) /\ SetContextProperty(p, k, v))
              => Context(s)' = Context(s)]_vars

\* a child that took its context while its parent's x was 1, after the parent
\* set its x to 2
ChildContextWitness ==
  \E p \in SuiteIds : \E s \in ChildrenOf(p) :
    /\ HasContext(p) /\ HasContext(s)
    /\ Context(p)["x"] = 2
    /\ Context(s)["x"] = 1

\* C8: a suite that has a shared context keeps that very context through every
\* step, and a call of sharedUserContext() on it returns that context.
ContextIsStable ==
  [][\A s \in SuiteIds :
       /\ HasContext(s) => suites'[s].sharedContext = suites[s].sharedContext
       /\ SharedUserContext(s) => returned' = suites'[s].sharedContext]_vars

\* sharedUserContext() has just returned the context a child had taken before
\* its parent's context changed and a clone of the parent's context was made
ContextIsStableWitness ==
  \E p \in SuiteIds : \E s \in ChildrenOf(p) :
    /\ HasContext(p) /\ HasContext(s)
    /\ returned = suites[s].sharedContext
    /\ Context(p) # Context(s)
    /\ Len(heap) > Cardinality({o \in SuiteIds : HasContext(o)})

\* C9: no two suites hold the same context object, and an assignment to one
\* suite's context leaves the contents of every other suite's context as they
\* were.
ContextsAreDisjoint ==
  /\ [](\A s, o \in SuiteIds :
          (s # o /\ HasContext(s) /\ HasContext(o))
            => suites[s].sharedContext # suites[o].sharedContext)
  /\ [][\A s \in SuiteIds, k \in Keys, v \in Values :
          SetContextProperty(s, k, v)
            => \A o \in SuiteIds \ {s} : HasContext(o) => Context(o)' = Context(o)]_vars

\* two siblings and their parent, each with a context, the siblings' contents
\* differing from each other and from the parent's
ContextsAreDisjointWitness ==
  \E p \in SuiteIds : \E s, o \in ChildrenOf(p) :
    /\ s # o
    /\ HasContext(p) /\ HasContext(s) /\ HasContext(o)
    /\ Context(s)["x"] = 1
    /\ Context(o)["x"] = 2
    /\ Context(p)["x"] = Absent

\* the record onException builds for an error that is not the signal
SyntheticData(err) ==
  [matcherName |-> "", passed |-> "false", expected |-> "", actual |-> "",
   error |-> err, message |-> Undefined]

\* C11: onException(err) with an err that is not the ExpectationFailed signal
\* appends exactly one record to failedExpectations, made from empty
\* matcherName, expected and actual, passed false and err as its error; the
\* record carries globalErrorType 'afterAll' exactly when the suite has no
\* parent.  With the signal the call changes nothing, on the root as well.
OnExceptionAppendsSynthetic ==
  [][\A s \in SuiteIds, err \in Thrown :
       OnException(s, err) =>
         IF err = ExpectationFailed
         THEN suites' = suites
         ELSE /\ Len(FailedExpectations(s)') = Len(FailedExpectations(s)) + 1
              /\ SubSeq(FailedExpectations(s)', 1, Len(FailedExpectations(s)))
                   = FailedExpectations(s)
              /\ LET rec == FailedExpectations(s)'[Len(FailedExpectations(s)')]
                     bare == [f \in DOMAIN SyntheticData(err) |-> rec[f]]
                 IN  /\ bare = SyntheticData(err)
                     /\ rec.globalErrorType = "afterAll"
                          <=> suites[s].parentSuite = NoSuite
              /\ suites' = [suites EXCEPT ![s].result.failedExpectations =
                                             FailedExpectations(s)']]_vars

\* a suite with a parent holds one synthetic record for an error, without the
\* afterAll tag
OnExceptionWitness ==
  \E s \in SuiteIds :
    /\ suites[s].parentSuite # NoSuite
    /\ Len(FailedExpectations(s)) = 1
    /\ FailedExpectations(s)[1].error = "Error"
    /\ FailedExpectations(s)[1].matcherName = ""
    /\ FailedExpectations(s)[1].globalErrorType = Undefined

DeprecationWarnings(s) == suites[s].result.deprecationWarnings
IsPrefix(a, b) == Len(a) <= Len(b) /\ SubSeq(b, 1, Len(a)) = a

\* C12: in every step of every operation, on any suite of the tree, the
\* earlier failedExpectations is a prefix of the later one and the earlier
\* deprecationWarnings is a prefix of the later one: the lists only grow, no
\* entry is removed, replaced or moved.
ResultListsOnlyGrow ==
  [][\A s \in SuiteIds :
       /\ IsPrefix(FailedExpectations(s), FailedExpectations(s)')
       /\ IsPrefix(DeprecationWarnings(s), DeprecationWarnings(s)')]_vars

\* a suite that has collected two different failures, in the order of the
\* calls
ResultListsWitness ==
  \E s \in SuiteIds :
    /\ Len(FailedExpectations(s)) = 2
    /\ FailedExpectations(s)[1].matcherName = "toBe"
    /\ FailedExpectations(s)[2].matcherName = "toEqual"

\* the message a deprecation argument carries once it is an object
MessageOf(deprecation) ==
  IF deprecation.isString THEN deprecation.text ELSE deprecation.object.message

\* C13: addDeprecationWarning appends exactly one record to
\* deprecationWarnings, whose message is the text when the argument is a text
\* (wrapped as {message: text}) and the object's message otherwise; it leaves
\* failedExpectations and markedPending unchanged, so status() is the same
\* before and after.
DeprecationWarningAppendsOne ==
  [][\A s \in SuiteIds, d \in Deprecations :
       AddDeprecationWarning(s, d) =>
         /\ Len(DeprecationWarnings(s)') = Len(DeprecationWarnings(s)) + 1
         /\ IsPrefix(DeprecationWarnings(s), DeprecationWarnings(s)')
         /\ DeprecationWarnings(s)'[Len(DeprecationWarnings(s)')].message
              = MessageOf(d)
         /\ FailedExpectations(s)' = FailedExpectations(s)
         /\ suites'[s].markedPending = suites[s].markedPending
         /\ status(s)' = status(s)]_vars

\* a failed suite that has recorded the warning given as a text
DeprecationWarningWitness ==
  \E s \in SuiteIds :
    /\ Len(DeprecationWarnings(s)) = 1
    /\ DeprecationWarnings(s)[1].message = "old api"
    /\ Len(FailedExpectations(s)) = 1
    /\ status(s) = "failed"

\* the suites from the root down to s
RECURSIVE PathTo(_)
PathTo(s) ==
  IF suites[s].parentSuite = NoSuite THEN <<s>>
  ELSE Append(PathTo(suites[s].parentSuite), s)

\* the descriptions of the first n suites of path, left to right, with one
\* space between neighbours
RECURSIVE Spaced(_, _)
Spaced(path, n) ==
  IF n = 0 THEN ""
  ELSE IF n = 1 THEN suites[path[1]].description
  ELSE Spaced(path, n - 1) \o " " \o suites[path[n]].description

PathName(s) == Spaced(Tail(PathTo(s)), Len(PathTo(s)) - 1)

\* C14: getFullName() is the descriptions of the suites on the path from the
\* root down to the suite, the root left out, top-down, joined by single
\* spaces; the root's full name is the empty string.  Where A 'Calculator' is
\* declared in the root and B 'add' in A, B answers 'Calculator add', A
\* answers 'Calculator' and the root answers ''.
FullNameIsPath ==
  /\ \A s \in SuiteIds : getFullName(s) = PathName(s)
  /\ \A r \in SuiteIds : suites[r].parentSuite = NoSuite => getFullName(r) = ""
  /\ \A a, b \in SuiteIds :
       ( /\ suites[a].parentSuite # NoSuite
         /\ suites[suites[a].parentSuite].parentSuite = NoSuite
         /\ suites[a].description = "Calculator"
         /\ suites[b].parentSuite = a
         /\ suites[b].description = "add" )
       => /\ getFullName(b) = "Calculator add"
          /\ getFullName(a) = "Calculator"

\* the tree of the example: A 'Calculator' in the root, B 'add' in A
FullNameWitness ==
  /\ Len(suites) = 3
  /\ suites[2].parentSuite = 1 /\ suites[2].description = "Calculator"
  /\ suites[3].parentSuite = 2 /\ suites[3].description = "add"
  /\ getFullName(3) = "Calculator add"

\* C15: onMultipleDone() makes exactly one call of env.deprecated, with the
\* option ignoreRunnable: true.  On a suite with a parent the message is the
\* suite-scoped text and contains the suite's full name; on the root it is the
\* top-level text, which names no suite.  The call adds nothing to
\* failedExpectations and leaves status() as it was, in every suite.
MultipleDoneIsDeprecation ==
  [][\A s \in SuiteIds :
       OnMultipleDone(s) =>
         /\ Len(deprecated') = Len(deprecated) + 1
         /\ SubSeq(deprecated', 1, Len(deprecated)) = deprecated
         /\ LET call == deprecated'[Len(deprecated')]
            IN  /\ call.options = [ignoreRunnable |-> TRUE]
                /\ call.msg = IF suites[s].parentSuite = NoSuite
                              THEN TopLevelMessage
                              ELSE SuiteScopedMessage(PathName(s))
         /\ \A o \in SuiteIds :
              /\ FailedExpectations(o)' = FailedExpectations(o)
              /\ status(o)' = status(o)]_vars

\* the environment has received the report of suite 'add' declared in suite
\* 'Calculator', which is pending
MultipleDoneWitness ==
  \E s \in SuiteIds :
    /\ PathName(s) = "Calculator add"
    /\ status(s) = "pending"
    /\ deprecated = << [msg |-> SuiteScopedMessage("Calculator add"),
                        options |-> [ignoreRunnable |-> TRUE]] >>

OnlyThrowingFailureRaises ==
  [][/\ raised' # NoRaise =>
          \E s \in SuiteIds, p \in FalsyArgs, d \in ExpectationData :
            /\ suites[s].throwOnExpectationFailure
            /\ AddExpectationResult(s, p, d)
            /\ raised' = [error |-> ExpectationFailed, suite |-> s]
     /\ \A s \in SuiteIds, p \in PassedArgs, d \in ExpectationData :
          AddExpectationResult(s, p, d) =>
            (raised' # NoRaise <=>
               (p \in FalsyArgs /\ suites[s].throwOnExpectationFailure))
     /\ \A s \in SuiteIds :
          ( \/ \E e \in Thrown : OnException(s, e)
            \/ \E d \in Deprecations : AddDeprecationWarning(s, d)
            \/ Pend(s)
            \/ GetResult(s)
            \/ \E f \in Fns : BeforeEach(s, NewHook(f))
            \/ \E f \in Fns : BeforeAll(s, NewHook(f))
            \/ \E f \in Fns : AfterEach(s, NewHook(f))
            \/ \E f \in Fns : AfterAll(s, NewHook(f))
            \/ CleanupBeforeAfter(s) )
          => raised' = NoRaise]_vars

\* a suite declared in a throwing tree has just raised ExpectationFailed for
\* a failed expectation, which it has recorded
OnlyThrowingFailureWitness ==
  \E s \in SuiteIds :
    /\ suites[s].parentSuite # NoSuite
    /\ suites[s].throwOnExpectationFailure
    /\ raised = [error |-> ExpectationFailed, suite |-> s]
    /\ Len(FailedExpectations(s)) = 1

Duration(s) == suites[s].result.duration

\* C18, as stated: result.duration is null from construction until
\* endTimer() is called, only endTimer() writes it, and the elapsed duration
\* is stored exactly once: a duration that has been stored is never replaced.
DurationStoredOnce ==
  [][\A s \in SuiteIds :
       /\ Duration(s)' # Duration(s) => \E ms \in Durations : EndTimer(s, ms)
       /\ Duration(s) # <<>> => Duration(s)' = Duration(s)]_vars

\* C18: result.duration is null from construction until endTimer() is
\* called and only endTimer() writes it (startTimer and every other operation
\* leave it unchanged); every call of endTimer() stores the timer's elapsed
\* time, so a later call replaces the value an earlier call stored.
DurationWrittenByEndTimerOnly ==
  /\ \A s \in SuiteIds : Duration(s) = <<>>
  /\ [][/\ Len(suites') > Len(suites)
             => suites'[Len(suites')].result.duration = <<>>
        /\ \A s \in SuiteIds :
             /\ Duration(s)' # Duration(s) => \E ms \in Durations : EndTimer(s, ms)
             /\ StartTimer(s) => Duration(s)' = Duration(s)
             /\ \A ms \in Durations : EndTimer(s, ms) => Duration(s)' = <<ms>>]_vars

\* a suite whose timer was started and then ended with 5 elapsed
DurationWitness ==
  \E s \in SuiteIds :
    /\ suites[s].timer.started
    /\ Duration(s) = <<5>>

\* C19: whenever a suite's sharedContext has been created, the sharedContext
\* of its parent has been created too, and so, link by link, that of every
\* ancestor up to the root.
ContextCreationReachesRoot ==
  \A s \in SuiteIds :
    (HasContext(s) /\ suites[s].parentSuite # NoSuite)
      => HasContext(suites[s].parentSuite)

\* the first context asked for in the tree was that of a suite two levels
\* below the root: the call has created the root's, the parent's and its own
ContextCreationWitness ==
  \E s \in SuiteIds :
    LET p == suites[s].parentSuite
    IN  /\ p # NoSuite
        /\ suites[p].parentSuite # NoSuite
        /\ returned = suites[s].sharedContext
        /\ suites[suites[p].parentSuite].sharedContext = 1
        /\ suites[p].sharedContext = 2
        /\ suites[s].sharedContext = 3

\* status(), failedExpectations and markedPending of suite s are the same
\* before and after the step
OutcomeUnchanged(s) ==
  /\ status(s)' = status(s)
  /\ FailedExpectations(s)' = FailedExpectations(s)
  /\ suites'[s].markedPending = suites[s].markedPending

\* C20: status() of a suite depends only on that suite's own markedPending
\* and failedExpectations.  addChild on any suite, and pend,
\* addExpectationResult or onException on another suite (a child, a
\* descendant, an ancestor), leave a suite's status(), failedExpectations and
\* markedPending unchanged.
StatusIsLocal ==
  [][/\ \A s, o \in SuiteIds :
          ( /\ suites[s].markedPending = suites[o].markedPending
            /\ FailedExpectations(s) = FailedExpectations(o) )
          => status(s) = status(o)
     /\ \A o \in SuiteIds :
          /\ (\E c \in SuiteIds \cup SpecRefs : AddChild(o, c))
               => \A s \in SuiteIds : OutcomeUnchanged(s)
          /\ ( \/ Pend(o)
               \/ \E p \in PassedArgs, d \in ExpectationData :
                    AddExpectationResult(o, p, d)
               \/ \E e \in Thrown : OnException(o, e) )
               => \A s \in SuiteIds \ {o} : OutcomeUnchanged(s)]_vars

\* a suite that has recorded a failure while its parent has none and passes
StatusIsLocalWitness ==
  \E s \in SuiteIds :
    /\ suites[s].parentSuite # NoSuite
    /\ status(s) = "failed"
    /\ status(suites[s].parentSuite) = "passed"
    /\ FailedExpectations(suites[s].parentSuite) = <<>>

====
